---- MODULE Spec2Model ----
(***************************************************************************)
(* Model of generator-aem: the root project generator (AEMGenerator,       *)
(* src/generators/app/index.js) and the integration-tests module generator *)
(* (IntegrationTestsGenerator, src/unnamed/part_000), composed by the      *)
(* Yeoman run loop.                                                        *)
(*                                                                         *)
(* A JavaScript object is a function from the keys it owns to their        *)
(* values; a key the object does not own is outside its DOMAIN.  Strings   *)
(* that the code inspects character by character (package, groupId) are    *)
(* sequences of one-character strings.                                     *)
(***************************************************************************)
EXTENDS Naturals, Sequences, FiniteSets, TLC

VARIABLES
    lastIndex,   \* invalidPackageRegex.lastIndex: the /g regex is module state
    config,      \* the persisted configuration store (this.config.getAll())
    pom,         \* what GeneratorCommons.readPom finds on disk
    nodes,       \* the generator nodes of the current run, in composition order
    status,      \* "idle" | "running" | "failed" | "finished": the current run
    runs         \* number of invocations made so far in this process

vars == <<lastIndex, config, pom, nodes, status, runs>>

----------------------------------------------------------------------------
(* Bounds *)

MaxPkgLen == 1      \* longest package / groupId string drawn as an input
MaxRuns == 2        \* invocations made in one process
MaxModules == 1     \* longest modules list given to the root generator

----------------------------------------------------------------------------
(* JavaScript objects *)

EmptyBag == [k \in {} |-> TRUE]

Has(o, k) == k \in DOMAIN o

\* _.pick(o, keys)
Pick(o, keys) == [k \in (DOMAIN o) \cap keys |-> o[k]]

\* _.omit(o, keys)
Omit(o, keys) == [k \in (DOMAIN o) \ keys |-> o[k]]

\* _.defaults(o, src): src fills only the keys o does not have
Defaults(o, src) == o @@ src

\* o[k] = v
Put(o, k, v) == (k :> v) @@ o

\* delete o[k]
Delete(o, k) == Omit(o, {k})

\* _.isEmpty(o), o an object or undefined
IsEmpty(o) == DOMAIN o = {}

----------------------------------------------------------------------------
(* Strings *)

Chars == {"a", ".", "1"}

Letters == {"a"}

Strings(n) == UNION {[1..m -> Chars] : m \in 0..n}

\* truthiness of a string: '' is falsy
TruthyStr(s) == Len(s) > 0

\* the character class [^a-zA-Z.]
InvalidChar(c) == c \notin Letters /\ c # "."

\* 1-based positions of s, after the first li characters, that hold a character
\* of the class
MatchesFrom(s, li) == {j \in 1..Len(s) : j > li /\ InvalidChar(s[j])}

Min(S) == CHOOSE x \in S : \A y \in S : x <= y

\* invalidPackageRegex.test(s) with the regex's lastIndex = li: the search
\* starts at lastIndex; a match leaves lastIndex just after the matched
\* character, a failure resets it to 0.
RegexTest(s, li) ==
    IF MatchesFrom(s, li) # {}
    THEN [matched |-> TRUE, lastIndex |-> Min(MatchesFrom(s, li))]
    ELSE [matched |-> FALSE, lastIndex |-> 0]

\* s.replaceAll('.', path.sep)
ReplaceAllDots(s) == [j \in 1..Len(s) |-> IF s[j] = "." THEN "/" ELSE s[j]]

----------------------------------------------------------------------------
(* Program constants *)

\* unique (app/index.js:69)
unique == {"groupId", "version", "aemVersion"}

\* uniqueProperties (part_000:29)
uniqueProperties == {"package", "publish"}

\* IntegrationTestsModuleType (part_000:31)
IntegrationTestsModuleType == "tests-it"

\* _.keys(GeneratorCommons.options): the options shared by every generator
CommonOptionKeys == {"defaults"}

\* the project-relative paths a module can be generated into
Paths == {"it", "it2"}

\* this._listTemplates(kind)
ListTemplates(kind) ==
    IF kind = "shared"
    THEN <<"shared/pom.xml", "shared/src/SmokeIT.java">>
    ELSE <<"publish/src/PublishPageValidationIT.java">>

\* testClientCoordinates(version), version possibly undefined
testClientCoordinates(parent) ==
    IF Has(parent, "aemVersion") /\ parent.aemVersion = "cloud"
    THEN [groupId |-> "com.adobe.cq", artifactId |-> "aem-cloud-testing-clients"]
    ELSE [groupId |-> "com.adobe.cq", artifactId |-> "cq-testing-clients-65"]

\* this._apiCoordinates(version)
ApiCoordinates(parent) ==
    IF Has(parent, "aemVersion") /\ parent.aemVersion = "cloud"
    THEN [groupId |-> "com.adobe.aem", artifactId |-> "aem-sdk-api"]
    ELSE [groupId |-> "com.adobe.aem", artifactId |-> "uber-jar"]

\* this._latestRelease(coordinates), once the service has answered
Metadata(coordinates) ==
    [groupId |-> coordinates.groupId, artifactId |-> coordinates.artifactId,
     version |-> "latest"]

----------------------------------------------------------------------------
(* Root generator: AEMGenerator *)

\* GeneratorCommons.props(generator): the shared properties
CommonsProps(options) == Pick(options, CommonOptionKeys)

\* lines 78-80: the pom's aem.version fills aemVersion when that is falsy
AdoptPomAemVersion(props, pm) ==
    IF Has(pm, "pomProperties") /\ Has(pm.pomProperties, "aem.version")
          /\ pm.pomProperties["aem.version"] # ""
    THEN Put(props, "aemVersion",
             IF Has(props, "aemVersion") /\ props.aemVersion # ""
             THEN props.aemVersion
             ELSE pm.pomProperties["aem.version"])
    ELSE props

\* line 86-88: the hard-coded fallbacks
AppFallbacks(options, props) ==
    IF Has(options, "defaults") /\ options.defaults
    THEN Defaults(props, [version |-> "1.0.0-SNAPSHOT", aemVersion |-> "cloud"])
    ELSE props

\* lines 72-88: this.props at the end of the resolution
AppProps(options, cfg, pm) ==
    LET fromOptions == Defaults(EmptyBag, Pick(options, unique))
        fromConfig  == Defaults(fromOptions, Pick(cfg, unique))
        fromPom     == Defaults(fromConfig, Omit(pm, {"pomProperties"}))
        withAem     == AdoptPomAemVersion(fromPom, pm)
        shared      == Defaults(withAem, CommonsProps(options))
    IN  AppFallbacks(options, shared)

\* lines 90-93: the options handed to each child
ModuleOptions(props) == Put(Pick(props, CommonOptionKeys), "parent", props)

----------------------------------------------------------------------------
(* Integration-tests generator: IntegrationTestsGenerator *)

\* lines 69-74: the bag picked from the options, with a package the regex
\* matches deleted; the test moves the regex's lastIndex
ITValidate(options, li) ==
    LET picked == Defaults(EmptyBag, Pick(options, uniqueProperties))
    IN  IF Has(picked, "package") /\ TruthyStr(picked.package)
        THEN LET r == RegexTest(picked.package, li)
             IN  [props |-> IF r.matched THEN Delete(picked, "package") ELSE picked,
                  lastIndex |-> r.lastIndex]
        ELSE [props |-> picked, lastIndex |-> li]

\* what _configuring stores under the node's path
ModuleRecord(props) ==
    Put(Pick(props, uniqueProperties), "moduleType", IntegrationTestsModuleType)

\* this._initializing(): the shared options, then the record persisted for
\* this path, fill what is still unset; the parent's bag is attached
MixinInitializing(props, options, cfg, path) ==
    LET shared    == Defaults(props, Pick(options, CommonOptionKeys))
        persisted == IF Has(cfg, path)
                     THEN Defaults(shared, Omit(cfg[path], {"moduleType"}))
                     ELSE shared
    IN  Put(persisted, "parent",
            IF Has(options, "parent") THEN options.parent ELSE EmptyBag)

\* lines 78-80: the parent's groupId stands in for a falsy package
PackageFallback(props) ==
    IF Has(props.parent, "groupId") /\ TruthyStr(props.parent.groupId)
    THEN Put(props, "package",
             IF Has(props, "package") /\ TruthyStr(props.package)
             THEN props.package
             ELSE props.parent.groupId)
    ELSE props

\* initializing() without its publish fallback
PublishFallbackNone(options, props) == props

\* lines 82-84: this.props.publish = this.props.publish || true
PublishFallback(options, props) ==
    IF Has(options, "defaults") /\ options.defaults
    THEN Put(props, "publish",
             IF Has(props, "publish") /\ props.publish THEN props.publish ELSE TRUE)
    ELSE props

\* lines 68-85: this.props and the regex's lastIndex after initializing()
ITInitialize(options, cfg, path, li) ==
    LET v == ITValidate(options, li)
    IN  [props |-> PublishFallback(options,
                       PackageFallback(MixinInitializing(v.props, options, cfg, path))),
         lastIndex |-> v.lastIndex]

\* lines 106-114: the package prompt's when()
PackageWhen(props) ==
    ~ (Has(props, "defaults") /\ props.defaults
         /\ Has(props, "package") /\ TruthyStr(props.package))

\* line 121: the publish prompt's when
PublishWhen(props) == ~ Has(props, "publish")

\* lines 94-104: validate(package_); accepted is the promise resolving to true
PackageValidate(answer, li) ==
    IF Len(answer) = 0
    THEN [accepted |-> FALSE, lastIndex |-> li]
    ELSE LET r == RegexTest(answer, li)
         IN  [accepted |-> ~ r.matched, lastIndex |-> r.lastIndex]

\* the check without its exemption of the node's own path
SecondModuleAnyPath(cfg, path) ==
    \E key \in DOMAIN cfg :
        /\ key \notin unique
        /\ Has(cfg[key], "moduleType")
        /\ cfg[key].moduleType = IntegrationTestsModuleType

\* lines 133-139: some persisted record is an integration-tests module stored
\* under another key than this node's path
SecondModule(cfg, path) ==
    \E key \in DOMAIN cfg :
        /\ key \notin unique
        /\ Has(cfg[key], "moduleType")
        /\ cfg[key].moduleType = IntegrationTestsModuleType
        /\ key # path

\* the guard inverted: the check runs for the nodes that have a parent
IsRootInvocationInverted(options) ==
    Has(options, "parent") /\ ~ IsEmpty(options.parent)

\* line 133: the node runs the check and composes the root generator
IsRootInvocation(options) ==
    IF Has(options, "parent") THEN IsEmpty(options.parent) ELSE TRUE

\* the template list with the publish set not gated by the flag
TemplateFilesUngated(props) == ListTemplates("shared") \o ListTemplates("publish")

\* lines 148-153: the template list
TemplateFiles(props) ==
    ListTemplates("shared")
        \o (IF Has(props, "publish") /\ props.publish
            THEN ListTemplates("publish") ELSE <<>>)

----------------------------------------------------------------------------
(* The run loop: every node's methods are queued by priority; the loop runs  *)
(* the first task of the highest-priority non-empty queue and waits for a    *)
(* handler that returned a promise before it runs the next one.              *)

AppPhases == <<"initializing", "prompting", "default", "end">>

ITPhases == <<"initializing", "prompting", "configuring", "default", "writing">>

PhaseNames == {"initializing", "prompting", "configuring", "default", "writing", "end"}

Rank(phase) ==
    CASE phase = "initializing" -> 1
      [] phase = "prompting"    -> 2
      [] phase = "configuring"  -> 3
      [] phase = "default"      -> 4
      [] phase = "writing"      -> 5
      [] phase = "end"          -> 6

PhasesOf(kind) == IF kind = "app" THEN AppPhases ELSE ITPhases

\* the method of the node queued after `phase`, "done" after the last
NextPc(kind, phase) ==
    LET seq == PhasesOf(kind)
        at  == CHOOSE k \in 1..Len(seq) : seq[k] = phase
    IN  IF at = Len(seq) THEN "done" ELSE seq[at + 1]

\* a handler is suspended on a prompt or on its promise chain
Suspended == {"promptPackage", "promptPublish", "awaitClient", "thenWriting"}

Busy == \E j \in 1..Len(nodes) : nodes[j].pc \in Suspended

Runnable(i, phase) ==
    /\ status = "running"
    /\ i \in 1..Len(nodes)
    /\ nodes[i].pc = phase
    /\ ~ Busy
    /\ \A j \in 1..Len(nodes) :
          nodes[j].pc \in PhaseNames =>
             \/ Rank(nodes[j].pc) > Rank(phase)
             \/ (Rank(nodes[j].pc) = Rank(phase) /\ j >= i)

\* a generator instance as composeWith / run creates it
NewNode(kind, options, path, composer) ==
    [kind |-> kind, options |-> options, props |-> EmptyBag,
     pc |-> "initializing", relativePath |-> path, files |-> <<>>,
     client |-> "idle", api |-> "idle", emitted |-> FALSE,
     checked |-> FALSE, composer |-> composer]

----------------------------------------------------------------------------
(* Invocations *)

Optional(key, values) == {EmptyBag} \cup {key :> v : v \in values}

ModuleLists == UNION {[1..n -> {IntegrationTestsModuleType}] : n \in 1..MaxModules}

\* options of a root invocation in a composition
AppOptions ==
    {g @@ a @@ d @@ m :
        g \in Optional("groupId", Strings(MaxPkgLen)),
        a \in Optional("aemVersion", {"cloud", "6.5"}),
        d \in Optional("defaults", {TRUE}),
        m \in Optional("modules", ModuleLists)}

\* a parent bag handed over by a generator that composes the module itself
ParentBags == {"groupId" :> g : g \in Strings(MaxPkgLen) \ {<<>>}}

\* options of an invocation of the integration-tests generator: from the
\* command line (no parent) or composed by another generator (with a parent)
ITOptions ==
    {p @@ b @@ d @@ q :
        p \in Optional("package", Strings(MaxPkgLen)),
        b \in Optional("publish", BOOLEAN),
        d \in Optional("defaults", {TRUE}),
        q \in Optional("parent", ParentBags)}

CanInvoke == status \in {"idle", "finished", "failed"} /\ runs < MaxRuns

InvokeApp(options) ==
    /\ CanInvoke
    /\ nodes' = <<NewNode("app", options, ".", 0)>>
    /\ status' = "running"
    /\ runs' = runs + 1
    /\ UNCHANGED <<lastIndex, config, pom>>

InvokeIT(options, path) ==
    /\ CanInvoke
    /\ nodes' = <<NewNode("it", options, path, 0)>>
    /\ status' = "running"
    /\ runs' = runs + 1
    /\ UNCHANGED <<lastIndex, config, pom>>

----------------------------------------------------------------------------
(* AEMGenerator's methods *)

\* initializing(): resolve this.props, then compose one child per module
AppInitializing(i) ==
    /\ Runnable(i, "initializing")
    /\ nodes[i].kind = "app"
    /\ LET n        == nodes[i]
           props    == AppProps(n.options, config, pom)
           modules  == IF Has(n.options, "modules") THEN n.options.modules ELSE <<>>
       IN  \E paths \in [1..Len(modules) -> Paths] :
              nodes' = [nodes EXCEPT ![i] =
                           [n EXCEPT !.options = Delete(n.options, "generateInto"),
                                     !.props = props,
                                     !.pc = NextPc("app", "initializing")]]
                       \o [k \in 1..Len(modules) |->
                              NewNode("it", ModuleOptions(props), paths[k], i)]
    /\ UNCHANGED <<lastIndex, config, pom, status, runs>>

\* prompting() {}
AppPrompting(i) ==
    /\ Runnable(i, "prompting")
    /\ nodes[i].kind = "app"
    /\ nodes' = [nodes EXCEPT ![i].pc = NextPc("app", "prompting")]
    /\ UNCHANGED <<lastIndex, config, pom, status, runs>>

\* default() {}
AppDefault(i) ==
    /\ Runnable(i, "default")
    /\ nodes[i].kind = "app"
    /\ nodes' = [nodes EXCEPT ![i].pc = NextPc("app", "default")]
    /\ UNCHANGED <<lastIndex, config, pom, status, runs>>

\* end(): the closing log line
AppEnd(i) ==
    /\ Runnable(i, "end")
    /\ nodes[i].kind = "app"
    /\ nodes' = [nodes EXCEPT ![i].pc = NextPc("app", "end")]
    /\ UNCHANGED <<lastIndex, config, pom, status, runs>>

----------------------------------------------------------------------------
(* IntegrationTestsGenerator's methods *)

\* where prompting goes once the package question is settled
AfterPackage(props) ==
    IF PublishWhen(props) THEN "promptPublish" ELSE NextPc("it", "prompting")

\* initializing()
ITInitializing(i) ==
    /\ Runnable(i, "initializing")
    /\ nodes[i].kind = "it"
    /\ LET n == nodes[i]
           r == ITInitialize(n.options, config, n.relativePath, lastIndex)
       IN  /\ nodes' = [nodes EXCEPT ![i] =
                           [n EXCEPT !.props = r.props,
                                     !.pc = NextPc("it", "initializing")]]
           /\ lastIndex' = r.lastIndex
    /\ UNCHANGED <<config, pom, status, runs>>

\* prompting(): the questions whose when holds are asked, package first
ITPrompting(i) ==
    /\ Runnable(i, "prompting")
    /\ nodes[i].kind = "it"
    /\ nodes' = [nodes EXCEPT ![i].pc =
                    IF PackageWhen(nodes[i].props)
                    THEN "promptPackage"
                    ELSE AfterPackage(nodes[i].props)]
    /\ UNCHANGED <<lastIndex, config, pom, status, runs>>

\* the user answers the package question; validate decides whether to ask again
AnswerPackage(i, answer) ==
    /\ status = "running"
    /\ i \in 1..Len(nodes)
    /\ nodes[i].pc = "promptPackage"
    /\ LET v == PackageValidate(answer, lastIndex)
       IN  /\ lastIndex' = v.lastIndex
           /\ nodes' = IF v.accepted
                       THEN [nodes EXCEPT ![i] =
                               [@ EXCEPT !.props = Put(@, "package", answer),
                                         !.pc = AfterPackage(nodes[i].props)]]
                       ELSE nodes
    /\ UNCHANGED <<config, pom, status, runs>>

\* the user answers the publish confirmation
AnswerPublish(i, answer) ==
    /\ status = "running"
    /\ i \in 1..Len(nodes)
    /\ nodes[i].pc = "promptPublish"
    /\ nodes' = [nodes EXCEPT ![i] =
                    [@ EXCEPT !.props = Put(@, "publish", answer),
                              !.pc = NextPc("it", "prompting")]]
    /\ UNCHANGED <<lastIndex, config, pom, status, runs>>

\* configuring(): this._configuring() persists the node's record
ITConfiguring(i) ==
    /\ Runnable(i, "configuring")
    /\ nodes[i].kind = "it"
    /\ config' = Put(config, nodes[i].relativePath, ModuleRecord(nodes[i].props))
    /\ nodes' = [nodes EXCEPT ![i].pc = NextPc("it", "configuring")]
    /\ UNCHANGED <<lastIndex, pom, status, runs>>

\* default(): without parent, refuse a second module, else compose the root
ITDefault(i) ==
    /\ Runnable(i, "default")
    /\ nodes[i].kind = "it"
    /\ LET n == nodes[i]
       IN  IF IsRootInvocation(n.options)
           THEN IF SecondModule(config, n.relativePath)
                THEN /\ nodes' = [nodes EXCEPT ![i] =
                                     [n EXCEPT !.checked = TRUE, !.pc = "refused"]]
                     /\ status' = "failed"
                ELSE /\ nodes' = [nodes EXCEPT ![i] =
                                     [n EXCEPT !.checked = TRUE,
                                               !.pc = NextPc("it", "default")]]
                                 \o <<NewNode("app", "generateInto" :> ".", ".", i)>>
                     /\ UNCHANGED status
           ELSE /\ nodes' = [nodes EXCEPT ![i].pc = NextPc("it", "default")]
                /\ UNCHANGED status
    /\ UNCHANGED <<lastIndex, config, pom, runs>>

\* writing(), up to the return of the promise chain: the template list is
\* computed and both _latestRelease calls are made, the second one as the
\* argument of .then
ITWriting(i) ==
    /\ Runnable(i, "writing")
    /\ nodes[i].kind = "it"
    /\ nodes' = [nodes EXCEPT ![i] =
                    [@ EXCEPT !.files = TemplateFiles(nodes[i].props),
                              !.client = "pending",
                              !.api = "pending",
                              !.pc = "awaitClient"]]
    /\ UNCHANGED <<lastIndex, config, pom, status, runs>>

\* the metadata service answers the testing-client request
ClientSettle(i, outcome) ==
    /\ status = "running"
    /\ i \in 1..Len(nodes)
    /\ nodes[i].client = "pending"
    /\ nodes' = [nodes EXCEPT ![i].client = outcome]
    /\ UNCHANGED <<lastIndex, config, pom, status, runs>>

\* the metadata service answers the platform-API request
ApiSettle(i, outcome) ==
    /\ status # "crashed"
    /\ i \in 1..Len(nodes)
    /\ nodes[i].api = "pending"
    /\ nodes' = [nodes EXCEPT ![i].api = outcome]
    /\ UNCHANGED <<lastIndex, config, pom, status, runs>>

\* line 156-158: the first callback stores the testing-client metadata
ThenClient(i) ==
    /\ status = "running"
    /\ i \in 1..Len(nodes)
    /\ nodes[i].pc = "awaitClient"
    /\ nodes[i].client = "resolved"
    /\ nodes' = [nodes EXCEPT ![i] =
                    [@ EXCEPT !.props = Put(@, "testingClient",
                                  Metadata(testClientCoordinates(nodes[i].props.parent))),
                              !.pc = "thenWriting"]]
    /\ UNCHANGED <<lastIndex, config, pom, status, runs>>

\* the testing-client request failed: the chain rejects, no callback runs
ClientRejected(i) ==
    /\ status = "running"
    /\ i \in 1..Len(nodes)
    /\ nodes[i].pc = "awaitClient"
    /\ nodes[i].client = "rejected"
    /\ nodes' = [nodes EXCEPT ![i].pc = "failed"]
    /\ UNCHANGED <<lastIndex, config, pom, status, runs>>

\* line 159: .then is given a promise, not a function, so it passes on what
\* the first callback returned: nothing.  The set holds the value, if any.
PassedToLastCallback(n) == {}

\* lines 160-164: the last callback
ThenWriting(i) ==
    /\ status = "running"
    /\ i \in 1..Len(nodes)
    /\ nodes[i].pc = "thenWriting"
    /\ LET n == nodes[i]
           withAem == IF PassedToLastCallback(n) = {}
                      THEN Delete(n.props, "aem")
                      ELSE Put(n.props, "aem",
                               CHOOSE v \in PassedToLastCallback(n) : TRUE)
       IN  IF Has(n.props, "package")
           THEN nodes' = [nodes EXCEPT ![i] =
                    [n EXCEPT !.props = Put(withAem, "packagePath",
                                            ReplaceAllDots(n.props.package)),
                              !.emitted = TRUE,
                              !.pc = "done"]]
           ELSE nodes' = [nodes EXCEPT ![i] = [n EXCEPT !.props = withAem,
                                                        !.pc = "failed"]]
    /\ UNCHANGED <<lastIndex, config, pom, status, runs>>

\* nothing handles a rejection of the platform-API promise: the runtime may
\* end the process on it
UnhandledRejection(i) ==
    /\ status # "crashed"
    /\ i \in 1..Len(nodes)
    /\ nodes[i].api = "rejected"
    /\ status' = "crashed"
    /\ UNCHANGED <<lastIndex, config, pom, nodes, runs>>

\* the queues are empty: the run is over
Finish ==
    /\ status = "running"
    /\ \A j \in 1..Len(nodes) : nodes[j].pc \in {"done", "failed"}
    /\ status' = IF \E j \in 1..Len(nodes) : nodes[j].pc = "failed"
                 THEN "failed" ELSE "finished"
    /\ UNCHANGED <<lastIndex, config, pom, nodes, runs>>

----------------------------------------------------------------------------
(* Specification of a process making up to MaxRuns invocations on a new     *)
(* project                                                                  *)

Init ==
    /\ lastIndex = 0
    /\ config = EmptyBag
    /\ pom = EmptyBag
    /\ nodes = <<>>
    /\ status = "idle"
    /\ runs = 0

Settled == {"resolved", "rejected"}

Next ==
    \/ \E options \in AppOptions : InvokeApp(options)
    \/ \E options \in ITOptions, path \in Paths : InvokeIT(options, path)
    \/ \E i \in 1..Len(nodes) : AppInitializing(i)
    \/ \E i \in 1..Len(nodes) : AppPrompting(i)
    \/ \E i \in 1..Len(nodes) : AppDefault(i)
    \/ \E i \in 1..Len(nodes) : AppEnd(i)
    \/ \E i \in 1..Len(nodes) : ITInitializing(i)
    \/ \E i \in 1..Len(nodes) : ITPrompting(i)
    \/ \E i \in 1..Len(nodes), answer \in Strings(MaxPkgLen) : AnswerPackage(i, answer)
    \/ \E i \in 1..Len(nodes), answer \in BOOLEAN : AnswerPublish(i, answer)
    \/ \E i \in 1..Len(nodes) : ITConfiguring(i)
    \/ \E i \in 1..Len(nodes) : ITDefault(i)
    \/ \E i \in 1..Len(nodes) : ITWriting(i)
    \/ \E i \in 1..Len(nodes), outcome \in Settled : ClientSettle(i, outcome)
    \/ \E i \in 1..Len(nodes), outcome \in Settled : ApiSettle(i, outcome)
    \/ \E i \in 1..Len(nodes) : ThenClient(i)
    \/ \E i \in 1..Len(nodes) : ClientRejected(i)
    \/ \E i \in 1..Len(nodes) : ThenWriting(i)
    \/ \E i \in 1..Len(nodes) : UnhandledRejection(i)
    \/ Finish

Spec == Init /\ [][Next]_vars

----------------------------------------------------------------------------
(* Specification of the root generator's resolution over every combination  *)
(* of its sources: the project on disk has any persisted root properties    *)
(* and any pom, the invocation any options                                  *)

\* the root properties a persisted configuration may hold
ResolveConfigs ==
    {g @@ v @@ a :
        g \in Optional("groupId", {<<".">>}),
        v \in Optional("version", {"1.5.0"}),
        a \in Optional("aemVersion", {"", "6.4"})}

\* what readPom may return: nothing, or the descriptor's values
ResolvePoms ==
    {g @@ v @@ a :
        g \in Optional("groupId", {<<"1">>}),
        v \in Optional("version", {"1.0.0"}),
        a \in Optional("pomProperties", {"aem.version" :> "6.3"})}

ResolveOptions ==
    {g @@ v @@ a @@ d :
        g \in Optional("groupId", {<<"a">>}),
        v \in Optional("version", {"", "2.0.0"}),
        a \in Optional("aemVersion", {"", "6.5"}),
        d \in Optional("defaults", {TRUE})}

InitResolve ==
    /\ lastIndex = 0
    /\ config \in ResolveConfigs
    /\ pom \in ResolvePoms
    /\ nodes = <<>>
    /\ status = "idle"
    /\ runs = 0

NextResolve ==
    \/ \E options \in ResolveOptions : InvokeApp(options)
    \/ \E i \in 1..Len(nodes) : AppInitializing(i)
    \/ \E i \in 1..Len(nodes) : AppPrompting(i)
    \/ \E i \in 1..Len(nodes) : AppDefault(i)
    \/ \E i \in 1..Len(nodes) : AppEnd(i)
    \/ Finish

SpecResolve == InitResolve /\ [][NextResolve]_vars

----------------------------------------------------------------------------
(* Specification of a project on which only the integration-tests generator *)
(* is invoked, from the command line: no invocation carries a parent        *)

StandaloneOptions == {o \in ITOptions : ~ Has(o, "parent")}

NextStandalone ==
    \/ \E options \in StandaloneOptions, path \in Paths : InvokeIT(options, path)
    \/ \E i \in 1..Len(nodes) : AppInitializing(i)
    \/ \E i \in 1..Len(nodes) : AppPrompting(i)
    \/ \E i \in 1..Len(nodes) : AppDefault(i)
    \/ \E i \in 1..Len(nodes) : AppEnd(i)
    \/ \E i \in 1..Len(nodes) : ITInitializing(i)
    \/ \E i \in 1..Len(nodes) : ITPrompting(i)
    \/ \E i \in 1..Len(nodes), answer \in Strings(MaxPkgLen) : AnswerPackage(i, answer)
    \/ \E i \in 1..Len(nodes), answer \in BOOLEAN : AnswerPublish(i, answer)
    \/ \E i \in 1..Len(nodes) : ITConfiguring(i)
    \/ \E i \in 1..Len(nodes) : ITDefault(i)
    \/ \E i \in 1..Len(nodes) : ITWriting(i)
    \/ \E i \in 1..Len(nodes), outcome \in Settled : ClientSettle(i, outcome)
    \/ \E i \in 1..Len(nodes), outcome \in Settled : ApiSettle(i, outcome)
    \/ \E i \in 1..Len(nodes) : ThenClient(i)
    \/ \E i \in 1..Len(nodes) : ClientRejected(i)
    \/ \E i \in 1..Len(nodes) : ThenWriting(i)
    \/ \E i \in 1..Len(nodes) : UnhandledRejection(i)
    \/ Finish

SpecStandalone == Init /\ [][NextStandalone]_vars

----------------------------------------------------------------------------
(* Vocabulary of the properties *)

ITNodes == {i \in 1..Len(nodes) : nodes[i].kind = "it"}

AppNodes == {i \in 1..Len(nodes) : nodes[i].kind = "app"}

\* the string has a character that is neither a letter nor a period
HasInvalidChar(s) == \E j \in 1..Len(s) : s[j] \notin Letters \cup {"."}

\* the paths under which the store holds an integration-tests record
TestsItPaths(cfg) ==
    {p \in (DOMAIN cfg) \ unique :
        Has(cfg[p], "moduleType") /\ cfg[p].moduleType = "tests-it"}

\* the node has a parent context: a non-empty parent bag in its options
HasParentContext(n) == Has(n.options, "parent") /\ DOMAIN n.options.parent # {}

\* the node's writing() has been entered
WritingEntered(n) == n.client # "idle"

(* C1: an integration-tests node invoked without parent context is refused  *)
(* by its check exactly when the store holds a "tests-it" record under a    *)
(* path other than the node's own; otherwise (its own record being the only *)
(* one) it goes on and composes the root generator.                         *)
C1_RefusedIffOtherPath ==
    \A i \in ITNodes :
        nodes[i].checked =>
            /\ nodes[i].pc = "refused"
                  <=> TestsItPaths(config) \ {nodes[i].relativePath} # {}
            /\ nodes[i].pc # "refused"
                  => \E j \in AppNodes : nodes[j].composer = i

C1_Witness ==
    \E i \in ITNodes :
        /\ ~ HasParentContext(nodes[i])
        /\ nodes[i].pc = "refused"
        /\ nodes[i].relativePath \in TestsItPaths(config)

\* the composition was started from the root generator, or from the
\* integration-tests generator without parent context
StartedAtRoot ==
    Len(nodes) > 0 /\ (nodes[1].kind = "app" \/ ~ HasParentContext(nodes[1]))

\* the "tests-it" records stored under a path no node of this composition has:
\* they were persisted before it started
EarlierTestsIt ==
    {p \in TestsItPaths(config) : \A k \in 1..Len(nodes) : nodes[k].relativePath # p}

(* C2: in a composition, started from the root generator or from the        *)
(* integration-tests generator directly, that configures an integration-    *)
(* tests module while the store already holds a "tests-it" record at        *)
(* another path, no node enters writing and none emits files.               *)
C2_DuplicateStopsWriting ==
    (StartedAtRoot /\ ITNodes # {} /\ EarlierTestsIt # {})
       => \A j \in 1..Len(nodes) :
             ~ WritingEntered(nodes[j]) /\ ~ nodes[j].emitted

(* C3: file emission is requested only once both resolutions, testing       *)
(* client and platform API, have completed: never while one is pending.     *)
C3_EmissionAfterBoth ==
    \A i \in ITNodes :
        nodes[i].emitted =>
            nodes[i].client # "pending" /\ nodes[i].api # "pending"

(* C4: once either resolution of a node has failed, file emission is not    *)
(* requested for that node.                                                 *)
C4_FailureStopsEmission ==
    [][\A i \in ITNodes :
          (nodes[i].client = "rejected" \/ nodes[i].api = "rejected")
             => \/ nodes[i].emitted
                \/ i \notin 1..Len(nodes')
                \/ ~ nodes'[i].emitted]_vars

\* what the descriptor supplies for the root's unique properties
PomSupplies(pm) ==
    Omit(pm, {"pomProperties"})
       @@ (IF Has(pm, "pomProperties") /\ Has(pm.pomProperties, "aem.version")
           THEN "aemVersion" :> pm.pomProperties["aem.version"]
           ELSE EmptyBag)

\* the computed defaults of the root
RootDefaults(options) ==
    IF Has(options, "defaults") /\ options.defaults
    THEN [version |-> "1.0.0-SNAPSHOT", aemVersion |-> "cloud"]
    ELSE EmptyBag

\* the sources that define k, in precedence order
Defining(k, sources) == {s \in 1..Len(sources) : Has(sources[s], k)}

(* C5: after the root's initializing, each of groupId, version, aemVersion  *)
(* has the value of the highest-precedence source that defines it (options, *)
(* persisted configuration, pom, computed defaults) and is unset when none  *)
(* does.                                                                    *)
C5_RootPrecedence ==
    \A i \in AppNodes :
        nodes[i].pc # "initializing" =>
            LET sources == <<nodes[i].options, config, PomSupplies(pom),
                             RootDefaults(nodes[i].options)>>
            IN  \A k \in unique :
                   IF Defining(k, sources) = {}
                   THEN ~ Has(nodes[i].props, k)
                   ELSE /\ Has(nodes[i].props, k)
                        /\ nodes[i].props[k] = sources[Min(Defining(k, sources))][k]

(* C6: after the integration-tests node's initializing, a publish value     *)
(* supplied by the options or by the persisted record is the resolved one,  *)
(* false included, whatever the defaults flag; publish = true is filled in  *)
(* only under the defaults flag when no source supplied it.                 *)
C6_PublishFallback ==
    \A i \in ITNodes :
        nodes[i].pc = "prompting" =>
            LET n == nodes[i]
                persisted == IF Has(config, n.relativePath)
                             THEN config[n.relativePath] ELSE EmptyBag
                sources == <<n.options, persisted,
                             IF Has(n.options, "defaults") /\ n.options.defaults
                             THEN [publish |-> TRUE] ELSE EmptyBag>>
            IN  IF Defining("publish", sources) = {}
                THEN ~ Has(n.props, "publish")
                ELSE /\ Has(n.props, "publish")
                     /\ n.props.publish
                           = sources[Min(Defining("publish", sources))].publish

(* C7: whenever an integration-tests node is about to initialize, whatever  *)
(* initializations and validator calls came before it in the process, the   *)
(* validation step removes a supplied package that has a character outside  *)
(* letters and periods and keeps one that has none.                         *)
C7_InvalidPackageDiscarded ==
    \A i \in ITNodes :
        (nodes[i].pc = "initializing" /\ Has(nodes[i].options, "package")) =>
            LET package == nodes[i].options.package
                validated == ITValidate(nodes[i].options, lastIndex).props
            IN  IF HasInvalidChar(package)
                THEN ~ Has(validated, "package")
                ELSE Has(validated, "package") /\ validated.package = package

(* C8: resolving twice in a row, in the same process and from the same      *)
(* sources, gives the same bag, for the root and for the integration-tests  *)
(* generator.                                                               *)
C8_ResolveTwice ==
    /\ \A i \in ITNodes :
          nodes[i].pc = "initializing" =>
             LET n == nodes[i]
                 first  == ITInitialize(n.options, config, n.relativePath, lastIndex)
                 second == ITInitialize(n.options, config, n.relativePath,
                                        first.lastIndex)
             IN  first.props = second.props
    /\ \A i \in AppNodes :
          nodes[i].pc # "initializing" =>
             nodes[i].props = AppProps(nodes[i].options, config, pom)

(* C9: the template list computed by writing() is the whole shared set,     *)
(* followed by the publish set exactly when the resolved publish property   *)
(* is truthy.                                                               *)
C9_TemplateList ==
    \A i \in ITNodes :
        WritingEntered(nodes[i]) =>
            LET files  == nodes[i].files
                shared == ListTemplates("shared")
                rest   == SubSeq(files, Len(shared) + 1, Len(files))
                truthy == Has(nodes[i].props, "publish") /\ nodes[i].props.publish
            IN  /\ Len(files) >= Len(shared)
                /\ SubSeq(files, 1, Len(shared)) = shared
                /\ truthy => rest = ListTemplates("publish")
                /\ ~ truthy => rest = <<>>

C9_Witness ==
    \E i \in ITNodes :
        /\ nodes[i].emitted
        /\ Has(nodes[i].props, "publish") /\ nodes[i].props.publish
        /\ nodes[i].files = ListTemplates("shared") \o ListTemplates("publish")

(* C10: an integration-tests node composed with a parent context never runs *)
(* the duplicate-module check and never composes a generator; a node that   *)
(* did either has no parent context.                                        *)
C10_ChildNeverChecks ==
    \A i \in ITNodes :
        HasParentContext(nodes[i]) =>
            /\ ~ nodes[i].checked
            /\ \A j \in 1..Len(nodes) : nodes[j].composer # i

C10_Witness ==
    \E i \in ITNodes :
        /\ HasParentContext(nodes[i])
        /\ nodes[i].composer # 0
        /\ nodes[i].emitted
        /\ TestsItPaths(config) \ {nodes[i].relativePath} # {}

(* C11: when an integration-tests node requests file emission, its template *)
(* context holds both resolved metadata: props.testingClient is the result  *)
(* of the testing-client resolution and props.aem is the result of the      *)
(* platform-API resolution for the parent's aemVersion.                     *)
C11_ContextHoldsMetadata ==
    \A i \in ITNodes :
        nodes[i].emitted =>
            LET props == nodes[i].props
            IN  /\ Has(props, "testingClient")
                /\ props.testingClient = Metadata(testClientCoordinates(props.parent))
                /\ Has(props, "aem")
                /\ props.aem = Metadata(ApiCoordinates(props.parent))

\* node i's initializing() runs in this step
InitializingRuns(i) ==
    /\ runs' = runs
    /\ i \in 1..Len(nodes)
    /\ nodes[i].pc = "initializing"
    /\ nodes'[i].pc # "initializing"

(* C12: the initializing phase of either generator leaves every source bag  *)
(* as it was: the node's invocation options, the persisted configuration,   *)
(* the descriptor values and, for a composed node, the bag of the node that *)
(* composed it; only the node's own bag is written.                         *)
C12_SourcesUntouched ==
    [][\A i \in 1..Len(nodes) :
          InitializingRuns(i) =>
             /\ nodes'[i].options = nodes[i].options
             /\ config' = config
             /\ pom' = pom
             /\ \A j \in 1..Len(nodes) : j # i => nodes'[j] = nodes[j]]_vars

\* the defaults flag is set and a package is supplied as a valid option or
\* by the parent's groupId
DefaultsWithPackage(options) ==
    /\ Has(options, "defaults") /\ options.defaults
    /\ \/ /\ Has(options, "package")
          /\ TruthyStr(options.package)
          /\ ~ HasInvalidChar(options.package)
       \/ /\ Has(options, "parent")
          /\ Has(options.parent, "groupId")
          /\ TruthyStr(options.parent.groupId)

(* C13: an integration-tests node run with the defaults flag and a package  *)
(* supplied as a valid option or by the parent's groupId is asked neither   *)
(* question: it is never suspended on the package prompt or on the publish  *)
(* prompt, and once its initializing has run both skip conditions hold.     *)
C13_DefaultsNeverPrompt ==
    \A i \in ITNodes :
        DefaultsWithPackage(nodes[i].options) =>
            /\ nodes[i].pc \notin {"promptPackage", "promptPublish"}
            /\ nodes[i].pc # "initializing" =>
                  /\ ~ PackageWhen(nodes[i].props)
                  /\ ~ PublishWhen(nodes[i].props)

C13_Witness ==
    \E i \in ITNodes :
        /\ DefaultsWithPackage(nodes[i].options)
        /\ ~ Has(nodes[i].options, "package")
        /\ ~ Has(nodes[i].options, "publish")
        /\ nodes[i].composer # 0
        /\ nodes[i].pc = "done"
        /\ nodes[i].emitted

\* the lifecycle state a node is in: Initializing 1, Prompting 2,
\* Configuring 3, ComposingChildren 4, Writing 5, End 6
LifecycleState(pc) ==
    CASE pc \in PhaseNames -> Rank(pc)
      [] pc \in {"promptPackage", "promptPublish"} -> 2
      [] pc \in {"awaitClient", "thenWriting"} -> 5
      [] OTHER -> 6

\* the nodes composed in this step by node i
ComposedBy(i) ==
    {k \in (Len(nodes) + 1)..Len(nodes') : nodes'[k].composer = i}

(* C14: every node goes through Initializing, Prompting, Configuring,       *)
(* ComposingChildren, Writing, End in that order and never back; a node     *)
(* composes others only in its ComposingChildren state, so the root         *)
(* composes its children only after its properties are resolved and its     *)
(* prompting and configuring are behind it; an integration-tests node's     *)
(* record is persisted before its writing starts; and a node that has       *)
(* ended keeps its options, its bag and its file list.                      *)
C14_LifecycleOrder ==
    [][runs' = runs =>
         \A i \in 1..Len(nodes) :
            /\ LifecycleState(nodes'[i].pc) >= LifecycleState(nodes[i].pc)
            /\ ComposedBy(i) # {} => LifecycleState(nodes[i].pc) = 4
            /\ (nodes[i].kind = "it" /\ nodes'[i].pc = "awaitClient")
                  => Has(config, nodes[i].relativePath)
            /\ nodes[i].pc = "done" =>
                  /\ nodes'[i].pc = "done"
                  /\ nodes'[i].options = nodes[i].options
                  /\ nodes'[i].props = nodes[i].props
                  /\ nodes'[i].files = nodes[i].files]_vars

\* no invocation is running: each one so far completed or failed
Quiescent == status \in {"finished", "failed"}

(* C15: after any sequence of invocations of the integration-tests          *)
(* generator on one project, each completed or refused, the store holds at  *)
(* most one "tests-it" record; a refused module has no record under its     *)
(* path; and a module the store records still passes the check when it is   *)
(* configured again at its path.                                            *)
C15_SingleRecord ==
    Quiescent =>
        /\ Cardinality(TestsItPaths(config)) <= 1
        /\ \A i \in ITNodes :
              nodes[i].pc = "refused" =>
                 nodes[i].relativePath \notin TestsItPaths(config)
        /\ TestsItPaths(config) # {} =>
              \E p \in TestsItPaths(config) : ~ SecondModule(config, p)

(* C16: whenever an integration-tests node has entered writing, its         *)
(* resolved package is a non-empty string of letters and periods only,      *)
(* whether it came from the option, from the parent's groupId or from an    *)
(* answer the validator accepted.                                           *)
C16_PackageWellFormed ==
    \A i \in ITNodes :
        WritingEntered(nodes[i]) =>
            /\ Has(nodes[i].props, "package")
            /\ TruthyStr(nodes[i].props.package)
            /\ ~ HasInvalidChar(nodes[i].props.package)

\* the nodes that node i composed
Children(i) == {k \in 1..Len(nodes) : nodes[k].composer = i}

\* the entries of a root node's modules option
ModuleCount(n) == IF Has(n.options, "modules") THEN Len(n.options.modules) ELSE 0

(* C17: composition is bounded and has no cycle.  A root generator that was *)
(* invoked composes exactly one child per entry of its modules option and   *)
(* those children compose nothing; an integration-tests generator invoked   *)
(* without parent composes, once its check has passed, exactly one root     *)
(* generator node, which composes nothing.                                  *)
C17_CompositionBounded ==
    /\ \A i \in AppNodes :
          (nodes[i].composer = 0 /\ nodes[i].pc # "initializing") =>
             /\ Cardinality(Children(i)) = ModuleCount(nodes[i])
             /\ \A k \in Children(i) : nodes[k].kind = "it" /\ Children(k) = {}
    /\ \A i \in ITNodes :
          nodes[i].composer = 0 =>
             /\ Cardinality(Children(i))
                   = IF nodes[i].checked /\ nodes[i].pc # "refused" THEN 1 ELSE 0
             /\ \A k \in Children(i) : nodes[k].kind = "app" /\ Children(k) = {}

====
